---------------------------- MODULE Spec2Model ----------------------------
(***************************************************************************)
(* A model of the code-snippet side panel of src/src/CodeSnippetWidget.tsx *)
(*                                                                         *)
(*   - CodeSnippetDisplay.insertCodeSnippet / verifyLanguageAndInsert:     *)
(*     the insertion of a snippet into the focused editor surface;         *)
(*   - CodeSnippetWidget._evtDragEnter/_evtDragLeave/_evtDragOver/_evtDrop *)
(*     and fetchData/onAfterShow: the ingestion of a dropped payload and   *)
(*     the refresh of the displayed list.                                  *)
(*                                                                         *)
(* Strings of the program are sequences of one-character strings, so that  *)
(* toLowerCase, join and the concatenations are computed, not assumed.     *)
(***************************************************************************)
EXTENDS Integers, Sequences, FiniteSets, TLC

(***************************************************************************)
(* Bounds of the model.                                                    *)
(***************************************************************************)
\* insertCodeSnippet invocations (clicks on Insert) in one behaviour
MaxInserts == 1
\* drop events handled by _evtDrop in one behaviour
MaxDrops == 1
\* after-show messages (the panel is shown) in one behaviour
MaxShows == 1
\* the drag events handled before a drop (enter, over, leave)
MaxDrags == 1

(***************************************************************************)
(* Strings.                                                                *)
(***************************************************************************)
UpperChars == <<"A","B","C","D","E","F","G","H","I","J","K","L","M",
                "N","O","P","Q","R","S","T","U","V","W","X","Y","Z">>
LowerChars == <<"a","b","c","d","e","f","g","h","i","j","k","l","m",
                "n","o","p","q","r","s","t","u","v","w","x","y","z">>

\* the lower-case letter of each upper-case letter
LowerOf ==
    [c \in {UpperChars[i] : i \in 1..Len(UpperChars)} |->
        LowerChars[CHOOSE i \in 1..Len(UpperChars) : UpperChars[i] = c]]

\* String.prototype.toLowerCase, one character
LowerChar(c) == IF c \in DOMAIN LowerOf THEN LowerOf[c] ELSE c

\* String.prototype.toLowerCase
toLowerCase(s) == [i \in 1..Len(s) |-> LowerChar(s[i])]

\* Array.prototype.join
RECURSIVE join(_, _)
join(lines, sep) ==
    IF Len(lines) = 0 THEN <<>>
    ELSE IF Len(lines) = 1 THEN lines[1]
    ELSE lines[1] \o sep \o join(Tail(lines), sep)

\* the grave accent U+0060, which a TLA+ string literal cannot hold, is the
\* one-character string written "BACKTICK"
Backtick == "BACKTICK"
NL       == <<"\n">>
FENCE    == <<Backtick, Backtick, Backtick>>
EmptyStr == <<>>

python   == <<"p","y","t","h","o","n">>
Python   == <<"P","y","t","h","o","n">>
py       == <<"p","y">>
rlang    == <<"r">>
RLang    == <<"R">>

(***************************************************************************)
(* Snippets (ICodeSnippet).                                                *)
(***************************************************************************)
SnippetLanguages == {Python, py, rlang}
SnippetCodes     == { <<>>, << <<"x">>, <<"y","z">> >> }

Snippets ==
    [displayName : {<<"s">>}, language : SnippetLanguages, code : SnippetCodes]

NoSnippet == [displayName |-> <<>>, language |-> <<>>, code |-> <<>>]

(***************************************************************************)
(* The widgets of the shell.  A widget is described by what the runtime    *)
(* type tests of insertCodeSnippet read: its class, the class of its       *)
(* content, its constructor name and the path of its document context.     *)
(***************************************************************************)
Widgets ==
    { [id |-> "mdFile",   class |-> "DocumentWidget", content |-> "FileEditor",
       ctor |-> "DocumentWidget",   path |-> <<"a",".","m","d">>],
      [id |-> "upperMd",  class |-> "DocumentWidget", content |-> "FileEditor",
       ctor |-> "DocumentWidget",   path |-> <<"a",".","M","D">>],
      [id |-> "pyFile",   class |-> "DocumentWidget", content |-> "FileEditor",
       ctor |-> "PythonFileEditor", path |-> <<"a",".","p","y">>],
      [id |-> "image",    class |-> "DocumentWidget", content |-> "ImageViewer",
       ctor |-> "DocumentWidget",   path |-> <<"a",".","p","n","g">>],
      [id |-> "notebook", class |-> "NotebookPanel",  content |-> "Notebook",
       ctor |-> "NotebookPanel",    path |-> <<"n",".","i","p","y","n","b">>],
      [id |-> "launcher", class |-> "Widget",         content |-> "none",
       ctor |-> "Launcher",         path |-> <<>>],
      \* no widget is focused: app.shell.currentWidget is null
      [id |-> "null",     class |-> "null",           content |-> "none",
       ctor |-> "none",             path |-> <<>>] }

NoWidget == [id |-> "none", class |-> "none", content |-> "none",
             ctor |-> "none", path |-> <<>>]

\* the cells of the notebook by index, each with its class; activeCell = NullCell
\* is "no active cell" (null)
CellClass == <<"CodeCell", "MarkdownCell", "RawCell">>
NullCell  == 0
CellIndexes == {NullCell} \cup (1..Len(CellClass))

\* sessionContext.session?.kernel: undefined (no session, or a session without
\* kernel), or a kernel whose info reply names a language (language_info.name)
NoSession == [kind |-> "NoSession", language |-> <<>>]
Kernel(l) == [kind |-> "Kernel",    language |-> l]
KernelLanguages == {python, RLang}
Sessions == {NoSession} \cup {Kernel(l) : l \in KernelLanguages}

\* an editor is the file editor of a document (cell 0) or the editor of a cell
EditorOf(w, cell) == [widget |-> w.id, cell |-> cell]
NoEditor == [widget |-> "none", cell |-> 0]

VARIABLES
    currentWidget,   \* app.shell.currentWidget
    activeCell,      \* (notebookWidget.content as Notebook).activeCell
    session,         \* notebookWidget.sessionContext.session?.kernel
    calls,           \* the invocations of insertCodeSnippet
    drops,           \* the lm-drop events handled, each as received and as left
    drags,           \* the other drag events handled, as received and as left
    posts,           \* the create requests issued (RequestHandler.makePostRequest)
    fetches,         \* the list requests issued (fetchData)
    store,           \* the snippets the storage service holds
    codeSnippets     \* the list last emitted by renderCodeSnippetsSignal

insertVars == <<currentWidget, activeCell, session, calls>>
dropVars   == <<drops, drags, posts, fetches, store, codeSnippets>>
vars       == <<currentWidget, activeCell, session, calls,
                drops, drags, posts, fetches, store, codeSnippets>>

(***************************************************************************)
(* Side effects of one invocation, in the order it performs them.          *)
(***************************************************************************)
\* editor.replaceSelection(text)
ReplaceSelection(editor, text) ==
    [op |-> "replaceSelection", editor |-> editor, text |-> text]

\* showDialog({title: 'Warning', body: 'Code snippet "' + snippetName +
\*   '" is incompatible with ' + editorLanguage + '. Continue?', ...})
showWarnDialog(editorLanguage, snippetName) ==
    [op |-> "showWarnDialog", editor |-> NoEditor,
     text |-> <<"Code snippet ">> \o snippetName
              \o <<" is incompatible with ">> \o editorLanguage
              \o <<". Continue?">>]

\* showDialog({title: 'Error', body: errMsg, ...})
showErrDialog(errMsg) ==
    [op |-> "showErrDialog", editor |-> NoEditor, text |-> errMsg]

UnsupportedMsg == <<"Code snippet insert failed: Unsupported widget">>

(***************************************************************************)
(* insertCodeSnippet: the tests of its branches.                           *)
(***************************************************************************)
\* PathExt.extname, for a path that is a bare file name
LastDot(p) ==
    IF \E i \in 1..Len(p) : p[i] = "."
    THEN CHOOSE i \in 1..Len(p) :
             p[i] = "." /\ \A j \in (i+1)..Len(p) : p[j] # "."
    ELSE 0

extname(p) ==
    IF LastDot(p) <= 1 THEN <<>> ELSE SubSeq(p, LastDot(p), Len(p))

\* /^\.(md|mkdn?|mdown|markdown)$/
markdownRegex ==
    { <<".","m","d">>, <<".","m","k","d">>, <<".","m","k","d","n">>,
      <<".","m","d","o","w","n">>, <<".","m","a","r","k","d","o","w","n">> }

\* PathExt.extname(widget.context.path).match(markdownRegex) != null
IsMarkdownPath(path) == extname(path) \in markdownRegex

\* a faulty variant, for comparison: the test of the widget's content is forgotten
IsAnyDocumentWidget(widget) == widget.class = "DocumentWidget"

\* widget instanceof DocumentWidget && widget.content instanceof FileEditor
IsFileEditorWidget(widget) ==
    widget.class = "DocumentWidget" /\ widget.content = "FileEditor"

\* widget instanceof NotebookPanel
IsNotebookPanel(widget) == widget.class = "NotebookPanel"

\* notebookCell instanceof CodeCell
IsCodeCell(k) == CellClass[k] = "CodeCell"

\* a faulty variant, for comparison: every cell that is not a code cell is taken for a markdown cell
IsNotCodeCell(k) == CellClass[k] # "CodeCell"

\* notebookCell instanceof MarkdownCell
IsMarkdownCell(k) == CellClass[k] = "MarkdownCell"

\* a faulty variant, for comparison: every file editor is taken for the Python
\* file editor
IsAnyFileEditor(widget) == widget.content = "FileEditor"

\* widget.constructor.name == 'PythonFileEditor'
IsPythonFileEditor(widget) == widget.ctor = "PythonFileEditor"

\* a faulty variant, for comparison: the fence is not tagged with the snippet's language
MarkdownBlockUntagged(snippet) ==
    FENCE \o NL \o join(snippet.code, NL) \o NL \o FENCE

\* '```' + snippet.language + '\n' + snippetStr + '\n```'
MarkdownBlock(snippet) ==
    FENCE \o snippet.language \o NL \o join(snippet.code, NL) \o NL \o FENCE

\* kernelInfo?.language_info.name || ''
kernelLanguage(kernel) ==
    IF kernel.kind = "Kernel" THEN kernel.language ELSE EmptyStr

\* a faulty variant, for comparison: an unknown (empty) editor language is compared like any other
LanguageMismatchUnknownToo(snippet, editorLanguage) ==
    toLowerCase(snippet.language) # toLowerCase(editorLanguage)

\* a faulty variant, for comparison: the comparison is case-sensitive
LanguageMismatchCaseSensitive(snippet, editorLanguage) ==
    /\ editorLanguage # EmptyStr
    /\ snippet.language # editorLanguage

\* editorLanguage && snippet.language.toLowerCase() !== editorLanguage.toLowerCase()
LanguageMismatch(snippet, editorLanguage) ==
    /\ editorLanguage # EmptyStr
    /\ toLowerCase(snippet.language) # toLowerCase(editorLanguage)

(***************************************************************************)
(* An invocation of insertCodeSnippet.  pc is where it stands:             *)
(*   idle             not invoked yet                                      *)
(*   awaitKernelInfo  suspended at `await ...kernel?.info`                 *)
(*   warnDialog       suspended at `await this.showWarnDialog(...)`        *)
(*   done             its promise is resolved                              *)
(*   rejected         its promise is rejected (an exception was thrown)    *)
(* widget, cell and kernel are what it read when it was invoked; editor is *)
(* the editor it captured; effects are the side effects it performed.      *)
(***************************************************************************)
IdleCall ==
    [pc |-> "idle", snippet |-> NoSnippet, widget |-> NoWidget,
     cell |-> NullCell, kernel |-> NoSession, editor |-> NoEditor,
     answer |-> "none", effects |-> <<>>]

Perform(call, effect) == [call EXCEPT !.effects = Append(@, effect)]

Finish(call) == [call EXCEPT !.pc = "done"]

\* a faulty variant, for comparison: the else of the language test is missing,
\* so that the code is inserted before the dialog is answered as well
verifyLanguageAndInsertNoElse(call, snippet, editorLanguage, editor) ==
    LET c == Perform(call, ReplaceSelection(editor, join(snippet.code, NL)))
    IN  IF LanguageMismatch(snippet, editorLanguage)
        THEN [Perform(c, showWarnDialog(editorLanguage, snippet.displayName))
                 EXCEPT !.pc = "warnDialog"]
        ELSE Finish(c)

\* verifyLanguageAndInsert up to its first suspension
verifyLanguageAndInsert(call, snippet, editorLanguage, editor) ==
    IF LanguageMismatch(snippet, editorLanguage)
    THEN [Perform(call, showWarnDialog(editorLanguage, snippet.displayName))
             EXCEPT !.pc = "warnDialog"]
    ELSE Finish(Perform(call,
                        ReplaceSelection(editor, join(snippet.code, NL))))

Init ==
    /\ currentWidget \in Widgets
    /\ activeCell \in CellIndexes
    /\ session \in Sessions
    /\ calls = [i \in 1..MaxInserts |-> IdleCall]
    /\ drops = <<>>
    /\ drags = <<>>
    /\ posts = <<>>
    /\ fetches = <<>>
    /\ store = <<>>
    /\ codeSnippets = <<>>

\* the notebook branch of insertCodeSnippet, lines 110-131
InsertIntoNotebook(call, snippet, widget) ==
    IF activeCell = NullCell
    THEN \* notebookCell.editor with notebookCell null: a TypeError is thrown
         [call EXCEPT !.pc = "rejected"]
    ELSE LET notebookCellEditor == EditorOf(widget, activeCell)
             c == [call EXCEPT !.cell = activeCell,
                               !.editor = notebookCellEditor]
         IN  IF IsCodeCell(activeCell)
             THEN IF session.kind = "Kernel"
                  THEN \* suspended until the kernel's info promise settles
                       [c EXCEPT !.pc = "awaitKernelInfo", !.kernel = session]
                  ELSE \* `await undefined`: resumed before any other event
                       verifyLanguageAndInsert(
                           [c EXCEPT !.kernel = session], snippet,
                           kernelLanguage(session), notebookCellEditor)
             ELSE IF IsMarkdownCell(activeCell)
             THEN Finish(Perform(c, ReplaceSelection(notebookCellEditor,
                                                     MarkdownBlock(snippet))))
             ELSE Finish(Perform(c, ReplaceSelection(notebookCellEditor,
                                                     join(snippet.code, NL))))

\* the file editor branch of insertCodeSnippet, lines 91-109
InsertIntoFileEditor(call, snippet, widget) ==
    LET fileEditor == EditorOf(widget, 0)
        c == [call EXCEPT !.editor = fileEditor]
    IN  IF IsMarkdownPath(widget.path)
        THEN Finish(Perform(c, ReplaceSelection(fileEditor,
                                                MarkdownBlock(snippet))))
        ELSE IF IsPythonFileEditor(widget)
        THEN verifyLanguageAndInsert(c, snippet, python, fileEditor)
        ELSE Finish(Perform(c, ReplaceSelection(fileEditor,
                                                join(snippet.code, NL))))

\* the user clicks Insert on a snippet: insertCodeSnippet runs up to its first
\* suspension, or to its end
insertCodeSnippet(i, snippet) ==
    /\ calls[i].pc = "idle"
    /\ \A j \in 1..(i-1) : calls[j].pc # "idle"
    /\ LET widget == currentWidget
           call == [IdleCall EXCEPT !.snippet = snippet, !.widget = widget]
       IN  calls' = [calls EXCEPT ![i] =
               IF IsFileEditorWidget(widget)
               THEN InsertIntoFileEditor(call, snippet, widget)
               ELSE IF IsNotebookPanel(widget)
               THEN InsertIntoNotebook(call, snippet, widget)
               ELSE Finish(Perform(call, showErrDialog(UnsupportedMsg)))]
    /\ UNCHANGED <<currentWidget, activeCell, session, dropVars>>

\* a faulty variant, for comparison: the editor is looked up when the kernel's
\* info has arrived, in what is focused then
ResumeKernelInfoOnFocused(i) ==
    /\ calls[i].pc = "awaitKernelInfo"
    /\ calls' = [calls EXCEPT ![i] =
           verifyLanguageAndInsert(calls[i], calls[i].snippet,
                                   kernelLanguage(calls[i].kernel),
                                   EditorOf(currentWidget, activeCell))]
    /\ UNCHANGED <<currentWidget, activeCell, session, dropVars>>

\* the kernel's info promise settles and insertCodeSnippet resumes, lines 117-123
ResumeKernelInfo(i) ==
    /\ calls[i].pc = "awaitKernelInfo"
    /\ calls' = [calls EXCEPT ![i] =
           verifyLanguageAndInsert(calls[i], calls[i].snippet,
                                   kernelLanguage(calls[i].kernel),
                                   calls[i].editor)]
    /\ UNCHANGED <<currentWidget, activeCell, session, dropVars>>

\* a faulty variant, for comparison: the answer to the dialog is not looked at
AfterWarnDialogAnyAnswer(call, accept) ==
    Finish(Perform([call EXCEPT !.answer = IF accept THEN "accept" ELSE "cancel"],
                   ReplaceSelection(call.editor, join(call.snippet.code, NL))))

\* if (result.button.accept) { editor.replaceSelection(snippetStr); }
AfterWarnDialog(call, accept) ==
    IF accept
    THEN Finish(Perform([call EXCEPT !.answer = "accept"],
                        ReplaceSelection(call.editor,
                                         join(call.snippet.code, NL))))
    ELSE Finish([call EXCEPT !.answer = "cancel"])

\* the user answers the warning dialog and verifyLanguageAndInsert resumes
WarnDialogResult(i, accept) ==
    /\ calls[i].pc = "warnDialog"
    /\ calls' = [calls EXCEPT ![i] = AfterWarnDialog(calls[i], accept)]
    /\ UNCHANGED <<currentWidget, activeCell, session, dropVars>>

\* the host's state is read by insertCodeSnippet when it is invoked: its
\* changes are followed as long as an invocation is still to come or pending
Observed == \E i \in 1..MaxInserts : calls[i].pc \notin {"done", "rejected"}

\* the user focuses another widget of the shell
FocusWidget(w) ==
    /\ Observed
    /\ w # currentWidget
    /\ currentWidget' = w
    /\ UNCHANGED <<activeCell, session, calls, dropVars>>

\* the notebook's active cell changes
ActivateCell(k) ==
    /\ Observed
    /\ k # activeCell
    /\ activeCell' = k
    /\ UNCHANGED <<currentWidget, session, calls, dropVars>>

\* the notebook's session or kernel changes
ChangeSession(s) ==
    /\ Observed
    /\ s # session
    /\ session' = s
    /\ UNCHANGED <<currentWidget, activeCell, calls, dropVars>>

Next ==
    \/ \E i \in 1..MaxInserts, snippet \in Snippets : insertCodeSnippet(i, snippet)
    \/ \E i \in 1..MaxInserts : ResumeKernelInfo(i)
    \/ \E i \in 1..MaxInserts, accept \in BOOLEAN : WarnDialogResult(i, accept)
    \/ \E w \in Widgets : FocusWidget(w)
    \/ \E k \in CellIndexes : ActivateCell(k)
    \/ \E s \in Sessions : ChangeSession(s)

Spec == Init /\ [][Next]_vars

(***************************************************************************)
(* Drag-and-drop ingestion and the refresh of the list.                    *)
(***************************************************************************)
\* a value that may be undefined
Undefined == [defined |-> FALSE, value |-> <<>>]
Some(v)   == [defined |-> TRUE,  value |-> v]

JUPYTER_CELL_MIME == "application/vnd.jupyter.cells"
TEXT_PLAIN        == "text/plain"
MimeTypes         == {TEXT_PLAIN, JUPYTER_CELL_MIME}

\* MimeData: the data held for each MIME type, undefined where there is none
MimePayloads ==
    { m \in [MimeTypes -> {Undefined, Some(<<>>), Some(<<"x">>), Some(<<"cells">>)}] :
        /\ m[TEXT_PLAIN] # Some(<<"cells">>)
        /\ m[JUPYTER_CELL_MIME] \in {Undefined, Some(<<"cells">>)} }

\* mime.getData(type)
getData(mime, type) == mime[type]

\* mime.hasData(type)
hasData(mime, type) == mime[type].defined

\* a faulty variant, for comparison: the data of any MIME type is taken where
\* there is no plain text
findDataOfAnyType(mime) ==
    IF mime[TEXT_PLAIN].defined THEN mime[TEXT_PLAIN] ELSE mime[JUPYTER_CELL_MIME]

\* Private.findData
findData(mime) == getData(mime, TEXT_PLAIN)

\* the lm-drop events the host dispatches: IDragEvent, with the drop action
\* 'none' and nothing prevented or stopped yet
DropActions == {"none", "copy", "move"}
DropEvents ==
    [type : {"lm-drop"}, mimeData : MimePayloads, proposedAction : DropActions,
     dropAction : {"none"}, defaultPrevented : {FALSE},
     propagationStopped : {FALSE}]

\* the payloads of the drops ingested: plain text or none, no cells
TextPayloads == {m \in MimePayloads : ~m[JUPYTER_CELL_MIME].defined}

\* event.preventDefault(); event.stopPropagation();
Accept(event) ==
    [event EXCEPT !.defaultPrevented = TRUE, !.propagationStopped = TRUE]

\* the body of the create request of _evtDrop
DragDroppedBody(code) ==
    [display_name |-> <<"drag_dropped">>,
     metadata |-> [code |-> <<code>>,
                   description |-> "Print dragged and dropped",
                   language |-> python],
     name |-> "dragdropped",
     schema_name |-> "code-snippet"]

\* RequestHandler.makePostRequest(url, body, false): the request is issued and
\* the promise it returns is dropped
makePostRequest(ps, drop, body) ==
    Append(ps, [drop |-> drop, body |-> body, status |-> "inflight"])

\* a faulty variant, for comparison: the list is not fetched again after a drop
fetchDataOnShowOnly(fs, origin) ==
    IF origin = 0
    THEN Append(fs, [origin |-> origin, status |-> "inflight",
                     result |-> <<>>, emits |-> 0])
    ELSE fs

\* fetchData(): codeSnippetManager.findAll() is called and its promise returned;
\* origin is the drop that asked for it, 0 for onAfterShow
FromShow == 0
fetchData(fs, origin) ==
    Append(fs, [origin |-> origin, status |-> "inflight", result |-> <<>>,
                emits |-> 0])

\* a faulty variant, for comparison: a proposed action of 'none' is not looked at
NeverRejectedDrop(event) == FALSE

\* if (event.proposedAction === 'none')
IsRejectedDrop(event) == event.proposedAction = "none"

\* a faulty variant, for comparison: the drop action is the proposed one
DropActionAsProposed(event) == event.proposedAction

\* event.dropAction = 'none' / event.dropAction = 'copy'
DropActionOf(event) == IF IsRejectedDrop(event) THEN "none" ELSE "copy"

\* _evtDrop, the whole handler
evtDrop(event) ==
    /\ Len(drops) < MaxDrops
    /\ LET data == findData(event.mimeData)
           k == Len(drops) + 1
       IN  IF ~data.defined
           THEN /\ drops' = Append(drops, [before |-> event, after |-> event])
                /\ UNCHANGED <<posts, fetches>>
           ELSE /\ drops' = Append(drops,
                       [before |-> event,
                        after |-> [Accept(event) EXCEPT
                                      !.dropAction = DropActionOf(event)]])
                /\ IF IsRejectedDrop(event)
                   THEN UNCHANGED <<posts, fetches>>
                   ELSE /\ posts' = makePostRequest(posts, k,
                                        DragDroppedBody(data.value))
                        /\ fetches' = fetchData(fetches, k)
    /\ UNCHANGED <<drags, store, codeSnippets, insertVars>>

\* onAfterShow: the panel is shown
onAfterShow ==
    /\ Cardinality({f \in 1..Len(fetches) : fetches[f].origin = FromShow})
           < MaxShows
    /\ fetches' = fetchData(fetches, FromShow)
    /\ UNCHANGED <<drops, drags, posts, store, codeSnippets, insertVars>>

\* a faulty variant, for comparison: the fetched list is added to the list
\* the subscribers hold
emitMerged(held, list) == held \o list

\* this.renderCodeSnippetsSignal.emit(codeSnippets): the subscribers are handed
\* the list, which replaces the one they hold
emit(held, list) == list

\* a faulty variant, for comparison: the answer of any fetch but the one
\* issued last is dropped
FetchResolvedIfLatest(f) ==
    /\ fetches[f].status = "answered"
    /\ IF f = Len(fetches)
       THEN /\ fetches' = [fetches EXCEPT ![f].status = "emitted",
                                          ![f].emits = @ + 1]
            /\ codeSnippets' = emit(codeSnippets, fetches[f].result)
       ELSE /\ fetches' = [fetches EXCEPT ![f].status = "dropped"]
            /\ UNCHANGED codeSnippets
    /\ UNCHANGED <<drops, drags, posts, store, insertVars>>

\* .then((codeSnippets) => { this.renderCodeSnippetsSignal.emit(codeSnippets); })
FetchResolved(f) ==
    /\ fetches[f].status = "answered"
    /\ fetches' = [fetches EXCEPT ![f].status = "emitted",
                                  ![f].emits = @ + 1]
    /\ codeSnippets' = emit(codeSnippets, fetches[f].result)
    /\ UNCHANGED <<drops, drags, posts, store, insertVars>>

(***************************************************************************)
(* The storage service, by its contract: create(...) succeeds or fails,    *)
(* listAll() returns the snippets it holds.  Names identify snippets: a    *)
(* create of a name it already holds either fails or replaces the record.  *)
(***************************************************************************)
SnippetOfBody(body) ==
    [name |-> body.name, displayName |-> body.display_name,
     description |-> body.metadata.description,
     language |-> body.metadata.language, code |-> body.metadata.code]

Holds(st, name) == \E j \in 1..Len(st) : st[j].name = name

Replace(st, snippet) ==
    [j \in 1..Len(st) |->
        IF st[j].name = snippet.name THEN snippet ELSE st[j]]

\* the service handles a create request
CreateHandled(p, ok) ==
    /\ posts[p].status = "inflight"
    /\ LET snippet == SnippetOfBody(posts[p].body) IN
       IF ~ok
       THEN /\ posts' = [posts EXCEPT ![p].status = "failed"]
            /\ UNCHANGED store
       ELSE IF Holds(store, snippet.name)
       THEN /\ posts' = [posts EXCEPT ![p].status = "replaced"]
            /\ store' = Replace(store, snippet)
       ELSE /\ posts' = [posts EXCEPT ![p].status = "created"]
            /\ store' = Append(store, snippet)
    /\ UNCHANGED <<drops, drags, fetches, codeSnippets, insertVars>>

\* the service handles a list request (findAll): it answers what it holds
ListHandled(f) ==
    /\ fetches[f].status = "inflight"
    /\ fetches' = [fetches EXCEPT ![f].status = "answered",
                                  ![f].result = store]
    /\ UNCHANGED <<drops, drags, posts, store, codeSnippets, insertVars>>

\* a snippet the service holds from before
StoredSnippet ==
    [name |-> "hello", displayName |-> <<"hello">>, description |-> "",
     language |-> python, code |-> << <<"x">> >>]

DropInit ==
    /\ currentWidget \in {w \in Widgets : w.id = "launcher"}
    /\ activeCell = NullCell
    /\ session = NoSession
    /\ calls = [i \in 1..MaxInserts |-> IdleCall]
    /\ drops = <<>>
    /\ drags = <<>>
    /\ posts = <<>>
    /\ fetches = <<>>
    /\ store \in {<<>>, <<StoredSnippet>>}
    /\ codeSnippets = <<>>

DropNext ==
    \/ \E event \in {e \in DropEvents : e.mimeData \in TextPayloads} :
           evtDrop(event)
    \/ onAfterShow
    \/ \E f \in 1..Len(fetches) : FetchResolved(f)
    \/ \E p \in 1..Len(posts), ok \in BOOLEAN : CreateHandled(p, ok)
    \/ \E f \in 1..Len(fetches) : ListHandled(f)

DropSpec == DropInit /\ [][DropNext]_vars

\* the record an earlier drop left in the service
DroppedBefore == SnippetOfBody(DragDroppedBody(<<"x">>))

\* the widget of a later session: the service holds the record of a drop
RedropInit ==
    /\ currentWidget \in {w \in Widgets : w.id = "launcher"}
    /\ activeCell = NullCell
    /\ session = NoSession
    /\ calls = [i \in 1..MaxInserts |-> IdleCall]
    /\ drops = <<>>
    /\ drags = <<>>
    /\ posts = <<>>
    /\ fetches = <<>>
    /\ store = <<DroppedBefore>>
    /\ codeSnippets = <<>>

RedropSpec == RedropInit /\ [][DropNext]_vars

(***************************************************************************)
(* The drag events that precede a drop, and drops of every payload.        *)
(***************************************************************************)
\* the lm-dragenter, lm-dragleave and lm-dragover events the host dispatches
DragEvents ==
    [type : {"lm-dragenter", "lm-dragleave", "lm-dragover"},
     mimeData : MimePayloads, proposedAction : DropActions,
     dropAction : {"none"}, defaultPrevented : {FALSE},
     propagationStopped : {FALSE}]

\* _evtDragEnter, the event as the handler leaves it
DragEntered(event) ==
    IF ~hasData(event.mimeData, JUPYTER_CELL_MIME) THEN event ELSE Accept(event)

\* _evtDragLeave, the event as the handler leaves it (the class it removes
\* from the drop target is never added: no other trace)
DragLeft(event) ==
    IF ~hasData(event.mimeData, JUPYTER_CELL_MIME) THEN event ELSE Accept(event)

\* _evtDragOver, the event as the handler leaves it
DraggedOver(event) ==
    IF ~findData(event.mimeData).defined
    THEN event
    ELSE [Accept(event) EXCEPT !.dropAction = event.proposedAction]

\* the events of a drag carry the one MimeData object of that drag
SameDrag(event) ==
    /\ \A k \in 1..Len(drags) : drags[k].before.mimeData = event.mimeData
    /\ \A k \in 1..Len(drops) : drops[k].before.mimeData = event.mimeData

Handled(event, after) ==
    /\ Len(drags) < MaxDrags
    /\ SameDrag(event)
    /\ drags' = Append(drags, [before |-> event, after |-> after])
    /\ UNCHANGED <<drops, posts, fetches, store, codeSnippets, insertVars>>

\* handleEvent, case 'lm-dragenter'
evtDragEnter(event) ==
    event.type = "lm-dragenter" /\ Handled(event, DragEntered(event))

\* handleEvent, case 'lm-dragleave'
evtDragLeave(event) ==
    event.type = "lm-dragleave" /\ Handled(event, DragLeft(event))

\* handleEvent, case 'lm-dragover'
evtDragOver(event) ==
    event.type = "lm-dragover" /\ Handled(event, DraggedOver(event))

\* handleEvent, case 'lm-drop', for a drop of any payload
evtDropOfDrag(event) == SameDrag(event) /\ evtDrop(event)

DragInit == DropInit

DragNext ==
    \/ \E event \in DragEvents : evtDragEnter(event)
    \/ \E event \in DragEvents : evtDragLeave(event)
    \/ \E event \in DragEvents : evtDragOver(event)
    \/ \E event \in DropEvents : evtDropOfDrag(event)

DragSpec == DragInit /\ [][DragNext]_vars


(***************************************************************************)
(* What the claims about insertCodeSnippet speak of: the surface an        *)
(* invocation found focused (read from what it recorded when invoked) and  *)
(* the side effects it performed.                                          *)
(***************************************************************************)
Started(c) == c.pc # "idle"

OnFileEditor(c) ==
    c.widget.class = "DocumentWidget" /\ c.widget.content = "FileEditor"

OnMarkdownFile(c) == OnFileEditor(c) /\ extname(c.widget.path) \in markdownRegex

OnPythonFile(c) ==
    OnFileEditor(c) /\ ~OnMarkdownFile(c) /\ c.widget.ctor = "PythonFileEditor"

OnGenericFile(c) ==
    OnFileEditor(c) /\ ~OnMarkdownFile(c) /\ c.widget.ctor # "PythonFileEditor"

OnNotebook(c) == c.widget.class = "NotebookPanel"

OnCell(c, class) ==
    OnNotebook(c) /\ c.cell # NullCell /\ CellClass[c.cell] = class

OnMarkdownSurface(c) == OnMarkdownFile(c) \/ OnCell(c, "MarkdownCell")

OnCodeSurface(c) ==
    OnCell(c, "CodeCell") \/ OnPythonFile(c) \/ OnGenericFile(c)

\* the language the surface resolves to: the kernel's for a code cell, python
\* for the Python file editor, empty (unknown) otherwise
SurfaceLanguage(c) ==
    IF OnCell(c, "CodeCell")
    THEN IF c.kernel.kind = "Kernel" THEN c.kernel.language ELSE <<>>
    ELSE IF OnPythonFile(c) THEN python ELSE <<>>

\* the editor of the surface
SurfaceEditor(c) == [widget |-> c.widget.id, cell |-> c.cell]

SameLanguage(a, b) == toLowerCase(a) = toLowerCase(b)

\* the snippet's code joined by newlines, and the same in a fenced block
RawCode(c) == join(c.snippet.code, <<"\n">>)
Fenced(c) ==
    <<"BACKTICK","BACKTICK","BACKTICK">> \o c.snippet.language \o <<"\n">>
        \o RawCode(c) \o <<"\n">> \o <<"BACKTICK","BACKTICK","BACKTICK">>

IsReplace(e, editor, text) ==
    e.op = "replaceSelection" /\ e.editor = editor /\ e.text = text

IsWarn(e) == e.op = "showWarnDialog"
IsError(e) == e.op = "showErrDialog"

\* the invocation performed exactly one side effect, replaceSelection(text) on
\* the surface's editor
InsertedOnly(c, text) ==
    /\ c.pc = "done"
    /\ Len(c.effects) = 1
    /\ IsReplace(c.effects[1], SurfaceEditor(c), text)

Mismatching(c) ==
    /\ Started(c)
    /\ OnCodeSurface(c)
    /\ SurfaceLanguage(c) # <<>>
    /\ ~SameLanguage(SurfaceLanguage(c), c.snippet.language)

\* C1: on a code surface whose language is known and differs from the
\* snippet's (case-insensitively), the invocation shows the warning dialog
\* once, before touching the editor; accepted, it then performs exactly one
\* replaceSelection of the raw code; cancelled, it performs nothing more; no
\* error dialog is shown.
C1_MismatchPrompts ==
    \A i \in 1..MaxInserts :
        LET c == calls[i] IN
        Mismatching(c) =>
            /\ c.pc \in {"awaitKernelInfo", "warnDialog", "done"}
            /\ c.pc = "awaitKernelInfo" => c.effects = <<>>
            /\ c.pc = "warnDialog" =>
                   Len(c.effects) = 1 /\ IsWarn(c.effects[1])
            /\ c.pc = "done" /\ c.answer = "accept" =>
                   /\ Len(c.effects) = 2
                   /\ IsWarn(c.effects[1])
                   /\ IsReplace(c.effects[2], SurfaceEditor(c), RawCode(c))
            /\ c.pc = "done" /\ c.answer # "accept" =>
                   /\ c.answer = "cancel"
                   /\ Len(c.effects) = 1
                   /\ IsWarn(c.effects[1])

C1_Witness ==
    \E i \in 1..MaxInserts :
        /\ Mismatching(calls[i])
        /\ OnCell(calls[i], "CodeCell")
        /\ calls[i].pc = "done"
        /\ calls[i].answer = "accept"
        /\ Len(calls[i].effects) = 2

\* C2: on a markdown surface the invocation performs exactly one
\* replaceSelection, of the snippet's code in a block fenced and tagged with
\* the snippet's language, and shows no dialog.
C2_MarkdownFenced ==
    \A i \in 1..MaxInserts :
        LET c == calls[i] IN
        Started(c) /\ OnMarkdownSurface(c) => InsertedOnly(c, Fenced(c))

C2_Witness ==
    \E i \in 1..MaxInserts :
        /\ OnCell(calls[i], "MarkdownCell")
        /\ calls[i].snippet.language = <<"p","y">>
        /\ calls[i].snippet.code = << <<"x">>, <<"y","z">> >>
        /\ calls[i].pc = "done"
        /\ calls[i].effects[1].text =
               <<"BACKTICK","BACKTICK","BACKTICK","p","y","\n","x","\n","y","z",
                 "\n","BACKTICK","BACKTICK","BACKTICK">>

\* C3: on a code surface whose language is unknown (empty) the invocation
\* performs exactly one replaceSelection of the raw code and shows no dialog.
C3_UnknownLanguageInserts ==
    \A i \in 1..MaxInserts :
        LET c == calls[i] IN
        Started(c) /\ OnCodeSurface(c) /\ SurfaceLanguage(c) = <<>>
            => InsertedOnly(c, RawCode(c))

C3_Witness ==
    \E i \in 1..MaxInserts :
        /\ OnCell(calls[i], "CodeCell")
        /\ calls[i].kernel.kind # "Kernel"
        /\ calls[i].pc = "done"
        /\ calls[i].effects # <<>>

\* C4: on a code surface whose language equals the snippet's when both are
\* lower-cased the invocation shows no dialog and performs exactly one
\* replaceSelection of the raw code; nothing but that equality makes two
\* languages compatible: a "py" snippet on a python surface is prompted for.
C4_CaseInsensitiveMatch ==
    \A i \in 1..MaxInserts :
        LET c == calls[i] IN
        /\ ( /\ Started(c)
             /\ OnCodeSurface(c)
             /\ SurfaceLanguage(c) # <<>>
             /\ SameLanguage(SurfaceLanguage(c), c.snippet.language) )
           => \/ c.pc = "awaitKernelInfo" /\ c.effects = <<>>
              \/ InsertedOnly(c, RawCode(c))
        /\ ( /\ c.pc \in {"warnDialog", "done"}
             /\ OnCodeSurface(c)
             /\ SurfaceLanguage(c) = <<"p","y","t","h","o","n">>
             /\ c.snippet.language = <<"p","y">> )
           => IsWarn(c.effects[1])

C4_Witness ==
    \E i \in 1..MaxInserts :
        /\ OnCell(calls[i], "CodeCell")
        /\ calls[i].kernel = Kernel(<<"R">>)
        /\ calls[i].snippet.language = <<"r">>
        /\ InsertedOnly(calls[i], RawCode(calls[i]))

Unsupported(c) == ~OnFileEditor(c) /\ ~OnNotebook(c)

\* C5: on an unsupported widget the invocation performs no replaceSelection
\* and shows the error dialog exactly once, and no other dialog.
C5_UnsupportedErrorOnce ==
    \A i \in 1..MaxInserts :
        LET c == calls[i] IN
        Started(c) /\ Unsupported(c) =>
            /\ c.pc = "done"
            /\ Len(c.effects) = 1
            /\ IsError(c.effects[1])

C5_Witness ==
    \E i \in 1..MaxInserts :
        /\ calls[i].widget.id = "image"
        /\ calls[i].pc = "done"
        /\ Len(calls[i].effects) = 1
        /\ IsError(calls[i].effects[1])


FourVariants(c) ==
    \/ OnMarkdownFile(c)
    \/ OnPythonFile(c) \/ OnGenericFile(c)
    \/ OnCell(c, "CodeCell")
    \/ OnCell(c, "MarkdownCell")

ErrorOnly(c) ==
    /\ c.pc = "done"
    /\ Len(c.effects) = 1
    /\ IsError(c.effects[1])

C7_NeverThrows ==
    \A i \in 1..MaxInserts :
        LET c == calls[i] IN
        /\ c.pc # "rejected"
        /\ Started(c) /\ OnNotebook(c) /\ c.cell = NullCell => ErrorOnly(c)


(***************************************************************************)
(* What the claims about the drop handler speak of.                        *)
(***************************************************************************)
HasText(event) == event.mimeData["text/plain"].defined

PostsOf(k)   == {p \in 1..Len(posts) : posts[p].drop = k}
FetchesOf(k) == {f \in 1..Len(fetches) : fetches[f].origin = k}

\* C8: a drop whose payload has plain text and whose proposed action is not
\* 'none' issues exactly one create request (carrying the text as the one
\* line of code) and exactly one list request, whose answer is emitted once,
\* and never before it arrived; the event is left with the drop action 'copy'.
C8_DropPersistsAndRefreshesOnce ==
    \A k \in 1..Len(drops) :
        HasText(drops[k].before) /\ drops[k].before.proposedAction # "none" =>
            /\ Cardinality(PostsOf(k)) = 1
            /\ \A p \in PostsOf(k) :
                   posts[p].body.metadata.code =
                       <<drops[k].before.mimeData["text/plain"].value>>
            /\ Cardinality(FetchesOf(k)) = 1
            /\ \A f \in FetchesOf(k) :
                   fetches[f].emits =
                       IF fetches[f].status = "emitted" THEN 1 ELSE 0
            /\ drops[k].after.dropAction = "copy"

C8_Witness ==
    \E k \in 1..Len(drops) :
        /\ HasText(drops[k].before)
        /\ drops[k].before.proposedAction = "move"
        /\ drops[k].after.dropAction = "copy"
        /\ \E f \in FetchesOf(k) : fetches[f].status = "emitted"
        /\ \E p \in PostsOf(k) : posts[p].status = "created"

\* C9 as stated: the list request of a drop is issued, answered and emitted
\* only after that drop's create request has completed, so that the list it
\* emits holds the record the drop persisted.
C9_RefetchAfterCreate ==
    \A k \in 1..Len(drops) :
        \A f \in FetchesOf(k), p \in PostsOf(k) :
            /\ posts[p].status # "inflight"
            /\ fetches[f].status = "emitted" /\ posts[p].status # "failed" =>
                   \E j \in 1..Len(fetches[f].result) :
                       /\ fetches[f].result[j].name = posts[p].body.name
                       /\ fetches[f].result[j].code = posts[p].body.metadata.code

\* C10: a drop whose payload has plain text and whose proposed action is
\* 'none' issues no create request and no list request, and leaves the event
\* with the drop action 'none'.
C10_RejectedDropDoesNothing ==
    \A k \in 1..Len(drops) :
        HasText(drops[k].before) /\ drops[k].before.proposedAction = "none" =>
            /\ PostsOf(k) = {}
            /\ FetchesOf(k) = {}
            /\ drops[k].after.dropAction = "none"

C10_Witness ==
    \E k \in 1..Len(drops) :
        /\ HasText(drops[k].before)
        /\ drops[k].before.proposedAction = "none"
        /\ drops[k].after.defaultPrevented
        /\ Len(posts) = 0 /\ Len(fetches) = 0

\* C11: a drop whose payload has no plain text is ignored: it issues no
\* create request and no list request, and the event is left as it was
\* received (drop action, default and propagation untouched), whatever its
\* proposed action and whether or not the payload carries cells.
C11_DropWithoutTextIgnored ==
    \A k \in 1..Len(drops) :
        ~HasText(drops[k].before) =>
            /\ PostsOf(k) = {}
            /\ FetchesOf(k) = {}
            /\ drops[k].after = drops[k].before

C11_Witness ==
    \E k \in 1..Len(drops) :
        /\ ~HasText(drops[k].before)
        /\ drops[k].before.mimeData["application/vnd.jupyter.cells"].defined
        /\ drops[k].before.proposedAction = "copy"
        /\ ~drops[k].after.defaultPrevented
        /\ Len(posts) = 0 /\ Len(fetches) = 0

\* C12 as stated: drag-enter and drag-over accept the event (default
\* prevented and propagation stopped) exactly when its payload has plain text
\* or cells, and leave it as received otherwise.
Recognized(event) ==
    \/ event.mimeData["text/plain"].defined
    \/ event.mimeData["application/vnd.jupyter.cells"].defined

C12_EnterAndOverSameRule ==
    \A k \in 1..Len(drags) :
        LET before == drags[k].before
            after  == drags[k].after
        IN  before.type \in {"lm-dragenter", "lm-dragover"} =>
                /\ Recognized(before) <=>
                       (after.defaultPrevented /\ after.propagationStopped)
                /\ ~Recognized(before) => after = before

\* C13 as stated: a drop's create request carries a name that no stored
\* snippet has, so that it is never answered by replacing a record: every
\* successful drop adds a record.
C13_DropsKeepNamesUnique ==
    \A p \in 1..Len(posts) :
        /\ posts[p].status = "inflight" => ~Holds(store, posts[p].body.name)
        /\ posts[p].status # "replaced"

Emitted == {f \in 1..Len(fetches) : fetches[f].status = "emitted"}

\* C14: the list the subscribers hold is the whole answer of one list
\* request: nothing before the first emission, and after it the result of
\* one of the fetches that have emitted, whatever drops and shows interleave.
C14_EmittedListIsOneFetchResult ==
    IF Emitted = {}
    THEN codeSnippets = <<>>
    ELSE \E f \in Emitted : codeSnippets = fetches[f].result

C14_Witness ==
    /\ Len(fetches) = 2
    /\ Emitted = {1, 2}
    /\ Len(fetches[1].result) = 1
    /\ Len(fetches[2].result) = 2
    /\ codeSnippets = fetches[2].result

\* C17: no fetch is cancelled and each emits when it completes: a fetch, once
\* issued, stays; a fetch whose answer has arrived can only go on by emitting
\* its result, which becomes the list displayed, whether or not a fetch
\* issued later has emitted already; a fetch that has emitted does nothing
\* more; and the list displayed changes by nothing else.
C17_EachFetchEmitsOnCompletion ==
    [][ /\ Len(fetches') >= Len(fetches)
        /\ \A f \in 1..Len(fetches) :
               /\ fetches'[f].status \in {"inflight", "answered", "emitted"}
               /\ fetches[f].status = "emitted" => fetches'[f] = fetches[f]
               /\ fetches[f].status = "answered" /\ fetches'[f] # fetches[f] =>
                      /\ fetches'[f].status = "emitted"
                      /\ codeSnippets' = fetches[f].result
        /\ codeSnippets' # codeSnippets =>
               \E f \in 1..Len(fetches) :
                   /\ fetches[f].status = "answered"
                   /\ fetches'[f].status = "emitted" ]_vars

\* the stale end: both fetches have emitted, the one issued first last, and
\* the list displayed is not what the service holds
C17_Witness ==
    /\ Len(fetches) = 2
    /\ Emitted = {1, 2}
    /\ \A p \in 1..Len(posts) : posts[p].status = "created"
    /\ fetches[2].result = store
    /\ codeSnippets = fetches[1].result
    /\ codeSnippets # store

\* C18: a drop whose create request failed is left with the drop action
\* 'copy' and has issued its one list request all the same, whose answer is
\* emitted once when it arrives.
C18_FailedCreateUnobserved ==
    \A k \in 1..Len(drops) :
        \A p \in PostsOf(k) :
            posts[p].status = "failed" =>
                /\ drops[k].after.dropAction = "copy"
                /\ drops[k].after.defaultPrevented
                /\ Cardinality(FetchesOf(k)) = 1
                /\ \A f \in FetchesOf(k) :
                       /\ fetches[f].status \in {"inflight", "answered", "emitted"}
                       /\ fetches[f].emits =
                              IF fetches[f].status = "emitted" THEN 1 ELSE 0

C18_Witness ==
    \E k \in 1..Len(drops) :
        /\ \E p \in PostsOf(k) : posts[p].status = "failed"
        /\ drops[k].before.proposedAction = "move"
        /\ drops[k].after.dropAction = "copy"
        /\ \E f \in FetchesOf(k) :
               /\ fetches[f].status = "emitted"
               /\ codeSnippets = fetches[f].result
               /\ codeSnippets = store

(***************************************************************************)
(* Counting the side effects of an invocation.                             *)
(***************************************************************************)
Replaces(c) == {n \in 1..Len(c.effects) : c.effects[n].op = "replaceSelection"}
Dialogs(c)  == {n \in 1..Len(c.effects) : IsWarn(c.effects[n]) \/ IsError(c.effects[n])}
Errors(c)   == {n \in 1..Len(c.effects) : IsError(c.effects[n])}

\* the invocation has gone a success path to its end: a markdown surface, a
\* code surface of unknown or matching language, a mismatch accepted
SuccessPath(c) ==
    /\ c.pc = "done"
    /\ \/ OnMarkdownSurface(c)
       \/ OnCodeSurface(c) /\ ~Mismatching(c)
       \/ Mismatching(c) /\ c.answer = "accept"

\* C15: an invocation performs at most one replaceSelection and shows at
\* most one dialog, and never an error dialog and a replaceSelection both;
\* having gone a success path to its end it has performed exactly one
\* replaceSelection, on the editor of the surface it found when invoked.
C15_AtMostOneInsertOneDialog ==
    \A i \in 1..MaxInserts :
        LET c == calls[i] IN
        /\ Cardinality(Replaces(c)) <= 1
        /\ Cardinality(Dialogs(c)) <= 1
        /\ Errors(c) = {} \/ Replaces(c) = {}
        /\ SuccessPath(c) =>
               /\ Cardinality(Replaces(c)) = 1
               /\ \A n \in Replaces(c) : c.effects[n].editor = SurfaceEditor(c)

C15_Witness ==
    \E i \in 1..MaxInserts :
        /\ OnPythonFile(calls[i])
        /\ Mismatching(calls[i])
        /\ calls[i].pc = "done"
        /\ calls[i].answer = "accept"
        /\ Cardinality(Replaces(calls[i])) = 1
        /\ Cardinality(Dialogs(calls[i])) = 1

\* C16: on a file editor whose path is not a markdown path: the Python file
\* editor is verified against 'python' (the warning dialog, naming python,
\* first and alone exactly when the snippet's language lower-cased is not
\* 'python'; else one replaceSelection of the raw code and no dialog); any
\* other file editor gets one replaceSelection of the raw code and no dialog,
\* whatever the snippet's language.
C16_FileEditorLanguage ==
    \A i \in 1..MaxInserts :
        LET c == calls[i] IN
        /\ Started(c) /\ OnPythonFile(c) =>
               IF toLowerCase(c.snippet.language) # <<"p","y","t","h","o","n">>
               THEN /\ c.pc \in {"warnDialog", "done"}
                    /\ c.effects[1] =
                           [op |-> "showWarnDialog",
                            editor |-> [widget |-> "none", cell |-> 0],
                            text |-> <<"Code snippet ">> \o c.snippet.displayName
                                     \o <<" is incompatible with ">>
                                     \o <<"p","y","t","h","o","n">>
                                     \o <<". Continue?">>]
                    /\ Cardinality(Dialogs(c)) = 1
               ELSE InsertedOnly(c, RawCode(c))
        /\ Started(c) /\ OnGenericFile(c) => InsertedOnly(c, RawCode(c))

C16_Witness ==
    \E i \in 1..MaxInserts :
        /\ OnGenericFile(calls[i])
        /\ calls[i].snippet.language = <<"r">>
        /\ calls[i].snippet.code # <<>>
        /\ InsertedOnly(calls[i], RawCode(calls[i]))

\* C19 as stated: for a snippet with no code every replaceSelection is handed
\* the empty string, on code surfaces and on markdown surfaces alike.
C19_EmptyCodeEmptyInsertion ==
    \A i \in 1..MaxInserts :
        LET c == calls[i] IN
        c.snippet.code = <<>> =>
            \A n \in Replaces(c) : c.effects[n].text = <<>>

\* C20: the target is fixed when the invocation starts: whatever is focused
\* or active by the time the kernel's info has arrived or the dialog is
\* answered, a replaceSelection goes to the editor of the surface found at
\* invocation, and the text is that surface's (raw on a code surface, fenced
\* on a markdown surface).
C20_TargetFixedAtInvocation ==
    \A i \in 1..MaxInserts :
        LET c == calls[i] IN
        \A n \in Replaces(c) :
            /\ c.effects[n].editor = SurfaceEditor(c)
            /\ OnCodeSurface(c) => c.effects[n].text = RawCode(c)
            /\ OnMarkdownSurface(c) => c.effects[n].text = Fenced(c)

C20_Witness ==
    \E i \in 1..MaxInserts :
        /\ OnCell(calls[i], "CodeCell")
        /\ Mismatching(calls[i])
        /\ calls[i].pc = "done"
        /\ calls[i].answer = "accept"
        /\ currentWidget.id = "mdFile"
        /\ activeCell # calls[i].cell
        /\ \E n \in Replaces(calls[i]) :
               /\ calls[i].effects[n].editor = [widget |-> "notebook", cell |-> calls[i].cell]
               /\ calls[i].effects[n].text = RawCode(calls[i])

====
